---------------------------- MODULE Spec2Model ----------------------------
(***************************************************************************)
(* Model of server.py: the recitation verification pipeline (normalise,    *)
(* SequenceMatcher ratio, threshold verdict), the Drive folder resolution  *)
(* and upload, and the submissions.csv ledger, as driven by POST /submit.  *)
(*                                                                         *)
(* A text is a sequence of characters; a character is a one-character      *)
(* string, the non-ASCII and control characters of the regular expression  *)
(* of _normalize being written by name ("EMDASH", "TAB", ...).  A score is *)
(* the integer number of thousandths that round(x, 3) yields.              *)
(***************************************************************************)
EXTENDS Integers, Sequences, FiniteSets, TLC

(***************************************************************************)
(* Text normalisation: server.py _normalize                                *)
(***************************************************************************)
LowerLetters ==
    <<"a", "b", "c", "d", "e", "f", "g", "h", "i", "j", "k", "l", "m",
      "n", "o", "p", "q", "r", "s", "t", "u", "v", "w", "x", "y", "z">>

UpperLetters ==
    <<"A", "B", "C", "D", "E", "F", "G", "H", "I", "J", "K", "L", "M",
      "N", "O", "P", "Q", "R", "S", "T", "U", "V", "W", "X", "Y", "Z">>

\* The character class of the re.sub of _normalize: \s and the listed marks.
StrippedChars ==
    {" ", "TAB", "NL", ".", ",", "!", "?", ":", ";", "-", "EMDASH",
     "LDQUO", "RDQUO", "\"", "'", "(", ")", "[", "]", "MIDDOT", "ELLIPSIS"}

\* str.lower on one character.
LowerChar(c) ==
    IF \E i \in 1..Len(UpperLetters) : UpperLetters[i] = c
    THEN LowerLetters[CHOOSE i \in 1..Len(UpperLetters) : UpperLetters[i] = c]
    ELSE c

Lower(s) == [i \in 1..Len(s) |-> LowerChar(s[i])]

NotStripped(c) == c \notin StrippedChars

\* The stripping without the lower-casing: what a _normalize that forgot
\* s.lower() would return.
StripOnly(s) == SelectSeq(s, NotStripped)

RECURSIVE DropFirstStripped(_)
DropFirstStripped(s) ==
    IF Len(s) = 0 THEN s
    ELSE IF s[1] \in StrippedChars THEN Tail(s)
    ELSE <<s[1]>> \o DropFirstStripped(Tail(s))

\* The substitution limited to its first match (re.sub with count=1).
NormalizeFirstMatch(s) == DropFirstStripped(Lower(s))

_normalize(s) == SelectSeq(Lower(s), NotStripped)

(***************************************************************************)
(* difflib.SequenceMatcher(None, a, b).ratio() as _similarity uses it: no  *)
(* junk (isjunk is None and every text here is shorter than the 200        *)
(* characters at which autojunk starts).                                   *)
(***************************************************************************)
RECURSIVE RunLen(_, _, _, _, _, _)
\* Length of the common run of a and b that starts at a[i], b[j] and stays
\* inside a[..ahi], b[..bhi].
RunLen(a, b, i, j, ahi, bhi) ==
    IF i > ahi \/ j > bhi THEN 0
    ELSE IF a[i] # b[j] THEN 0
    ELSE 1 + RunLen(a, b, i + 1, j + 1, ahi, bhi)

SetMax(S) == CHOOSE x \in S : \A y \in S : y <= x
SetMin(S) == CHOOSE x \in S : \A y \in S : x <= y

\* find_longest_match: the longest matching block of a[alo..ahi] and
\* b[blo..bhi]; of the longest ones the one that starts earliest in a, and of
\* those the one that starts earliest in b.  size = 0 when nothing matches.
find_longest_match(a, b, alo, ahi, blo, bhi) ==
    LET starts == {p \in (alo..ahi) \X (blo..bhi) : a[p[1]] = b[p[2]]}
        len    == [p \in starts |-> RunLen(a, b, p[1], p[2], ahi, bhi)]
    IN  IF starts = {} THEN [i |-> alo, j |-> blo, size |-> 0]
        ELSE LET k  == SetMax({len[p] : p \in starts})
                 bi == SetMin({p[1] : p \in {q \in starts : len[q] = k}})
                 bj == SetMin({p[2] : p \in {q \in starts : len[q] = k /\ q[1] = bi}})
             IN  [i |-> bi, j |-> bj, size |-> k]

RECURSIVE MatchedChars(_, _, _, _, _, _)
\* get_matching_blocks summed: the block found, then the pieces to its left
\* and to its right, each matched the same way.
MatchedChars(a, b, alo, ahi, blo, bhi) ==
    IF alo > ahi \/ blo > bhi THEN 0
    ELSE LET m == find_longest_match(a, b, alo, ahi, blo, bhi)
         IN  IF m.size = 0 THEN 0
             ELSE m.size
                  + MatchedChars(a, b, alo, m.i - 1, blo, m.j - 1)
                  + MatchedChars(a, b, m.i + m.size, ahi, m.j + m.size, bhi)

\* ratio() as the exact fraction num/den = 2.0 * matches / (len(a) + len(b)),
\* and 1.0 when both texts are empty (difflib._calculate_ratio).
Ratio(a, b) ==
    IF Len(a) + Len(b) = 0 THEN [num |-> 1, den |-> 1]
    ELSE [num |-> 2 * MatchedChars(a, b, 1, Len(a), 1, Len(b)),
          den |-> Len(a) + Len(b)]

_similarity(a, b) == Ratio(_normalize(a), _normalize(b))

\* round(x, 3) in thousandths: to the nearest, an exact tie to the even one.
\* (An exact tie is num/den = k/2000 with k odd; below 160 characters in all
\* its reduced denominator is 16, a binary fraction, which float round()
\* rounds half to even.)
Round3(x) ==
    LET q == (x.num * 1000) \div x.den
        r == (x.num * 1000) % x.den
    IN  IF 2 * r > x.den THEN q + 1
        ELSE IF 2 * r < x.den THEN q
        ELSE IF q % 2 = 0 THEN q ELSE q + 1


(***************************************************************************)
(* Configuration and catalog: server.py lines 12-38                        *)
(***************************************************************************)
\* THRESHOLD = float(os.getenv("THRESHOLD", "0.85")), in thousandths.
THRESHOLD == 850

\* The optional form fields: verse_idx is <<>> when absent (None) and <<i>>
\* when given; week_id is a text, empty when absent (submit only tests its
\* truth: week_id or WEEK_ID).
NoIdx == <<>>
NoWeek == <<>>

Phrase(n) == [i \in 1..n |-> LowerLetters[((i - 1) % 26) + 1]]

\* A phrase written in groups of five letters.
Spaced(s) ==
    [k \in 1..(Len(s) + (Len(s) - 1) \div 5) |->
        IF k % 6 = 0 THEN " " ELSE s[k - k \div 6]]

Capital(s) ==
    IF Len(s) = 0 THEN s
    ELSE [s EXCEPT ![1] = UpperLetters[CHOOSE i \in 1..26 : LowerLetters[i] = s[1]]]

\* A reference text of n letters as verses.json holds it: capitalised,
\* spaced, with a final full stop.
VerseText(n) == Capital(Spaced(Phrase(n))) \o <<".">>

\* What the recogniser returns for a recitation that stops after n letters.
Heard(n) == Spaced(Phrase(n))

\* verses.json: {"week_id": ..., "verses": [...]}.
VERSES ==
    << [verse_id |-> "V1", kr |-> VerseText(46), en |-> VerseText(42)],
       [verse_id |-> "V2", kr |-> VerseText(65), en |-> VerseText(40)] >>

WEEK_ID == <<"w", "1">>

\* The inputs the requests are drawn from.
Langs == {"kr", "en", "fr"}
SupportedLangs == {"kr", "en"}
VerseIdxInputs == {NoIdx, <<-1>>, <<0>>, <<Len(VERSES)>>}
WeekInputs == {NoWeek, <<"w", "/", "2">>}
Transcripts == {Heard(31), Heard(34), Heard(48)}

\* _similarity of every transcript with every catalog text, computed once.
CatalogTexts == UNION {{VERSES[i].kr, VERSES[i].en} : i \in 1..Len(VERSES)}
SimilarityTable ==
    [t \in Transcripts \cup {<<>>}, x \in CatalogTexts |-> _similarity(t, x)]

\* The content of verses.json after json.load: shape tells the JSON value,
\* items the verse objects it holds, in the order of the file.
\*   "verse"   one verse object, {"verse_id": .., "kr": .., "en": ..}
\*   "list"    a list of verse objects
\*   "wrapper" an object with the list under "verses"
\*   "object"  an object with neither the verse fields nor "verses"
\*   "scalar"  a number, a string, true, false or null
SingleVerse(v) == [shape |-> "verse", items |-> <<v>>]
FlatList(vs) == [shape |-> "list", items |-> vs]
Wrapper(vs) == [shape |-> "wrapper", items |-> vs]
OtherObject == [shape |-> "object", items |-> <<>>]
Scalar == [shape |-> "scalar", items |-> <<>>]

\* isinstance(raw, dict)
IsDict(raw) == raw.shape \in {"verse", "wrapper", "object"}
\* "verses" in raw, for a dict
HasVerses(raw) == raw.shape = "wrapper"

NotLoaded == [state |-> "unloaded", isList |-> FALSE, items |-> <<>>]
\* The module could not be imported: the server does not start.
StartupError == [state |-> "failed", isList |-> FALSE, items |-> <<>>]
\* VERSES is bound: to a list of verse objects (isList, items), or to the
\* object of the file itself, which is no sequence of verse objects.
Loaded(isList, items) ==
    [state |-> "loaded", isList |-> isList, items |-> items]

\* Lines 36-38.  raw.get of line 36 is evaluated first and raises
\* AttributeError on every value that is no dict; after it,
\* VERSES = raw["verses"] if isinstance(raw, dict) and "verses" in raw
\*          else raw.
LoadCatalog(raw) ==
    IF ~IsDict(raw) THEN StartupError
    ELSE IF HasVerses(raw) THEN Loaded(TRUE, raw.items)
    ELSE Loaded(FALSE, <<>>)

\* The verse objects and the files the loader is tried on.
MaxCatalog == 3
VersePool ==
    {VERSES[1], VERSES[2],
     [verse_id |-> "V3", kr |-> VerseText(7), en |-> VerseText(5)]}
VerseLists == UNION {[1..n -> VersePool] : n \in 0..MaxCatalog}
Payloads ==
    {SingleVerse(v) : v \in VersePool}
    \cup {FlatList(vs) : vs \in VerseLists}
    \cup {Wrapper(vs) : vs \in VerseLists}
    \cup {OtherObject, Scalar}

\* The texts _normalize is tried on: every text of at most MaxTextLen
\* characters of TextAlphabet (letters of both cases, white space, marks
\* of the stripped class, a digit).
MaxTextLen == 4
TextAlphabet == {"a", "B", "z", "Z", " ", "NL", ".", "EMDASH", "'", "7"}
Texts == UNION {[1..n -> TextAlphabet] : n \in 0..MaxTextLen}


(***************************************************************************)
(* Grading: submit, "3) scoring", server.py lines 193-205                  *)
(***************************************************************************)
\* VERSES[int(verse_idx) - 1]: the index taken as counting from one.
ListIndexFromOne(n, i) ==
    IF 1 <= i /\ i <= n THEN i
    ELSE IF -n < i /\ i <= 0 THEN n + i
    ELSE 0

\* VERSES[int(verse_idx)] on a Python list of n items: the 1-based position
\* read, a negative index counting from the end, or 0 for IndexError.
ListIndex(n, i) ==
    IF 0 <= i /\ i < n THEN i + 1
    ELSE IF -n <= i /\ i < 0 THEN n + i + 1
    ELSE 0

\* target = v["kr"] if lang == "kr" else v["en"]
Target(v, lang) == IF lang = "kr" THEN v.kr ELSE v.en

Similarity(t, x) == SimilarityTable[t, x]

\* {"verse": v.get("verse_id", ""), "score": round(_similarity(...), 3)}
ScoreEntry(transcript, v, lang) ==
    [verse |-> v.verse_id,
     score |-> Round3(Similarity(transcript, Target(v, lang)))]

\* The comparison with THRESHOLD written strictly.
AboveThreshold(s) == s > THRESHOLD

\* s >= THRESHOLD, s being the rounded score.
MeetsThreshold(s) == s >= THRESHOLD

\* The scoring block: raised is TRUE when the indexing raises IndexError,
\* compared counts the calls of _similarity.
Grade(transcript, lang, verse_idx) ==
    IF verse_idx # NoIdx
    THEN LET pos == ListIndex(Len(VERSES), verse_idx[1])
         IN  IF pos = 0
             THEN [raised |-> TRUE, scores |-> <<>>, passed |-> FALSE,
                   compared |-> 0]
             ELSE LET e == ScoreEntry(transcript, VERSES[pos], lang)
                  IN  [raised |-> FALSE, scores |-> <<e>>,
                       passed |-> MeetsThreshold(e.score), compared |-> 1]
    ELSE LET all == [i \in 1..Len(VERSES) |->
                        ScoreEntry(transcript, VERSES[i], lang)]
         IN  [raised |-> FALSE, scores |-> all,
              passed |-> \A i \in 1..Len(all) : MeetsThreshold(all[i].score),
              compared |-> Len(all)]


(***************************************************************************)
(* Google Drive: server.py lines 89-152.  The store is the sequence of the *)
(* folders created (a folder's id is its position) and the sequence of the *)
(* files uploaded; every remote call either answers or raises.             *)
(***************************************************************************)
\* The id of the root folder when GDRIVE_FOLDER_ID is set.
GDRIVE_FOLDER_ID == 0

AudioDir == <<"a", "u", "d", "i", "o">>
LogsDir == <<"l", "o", "g", "s">>

NoLink == <<>>
\* webViewLink of the file with this id.
LinkOf(id) == <<"view", id>>

Whitespace == {" ", "TAB", "NL"}

RECURSIVE Strip(_)
\* str.strip()
Strip(s) ==
    IF Len(s) = 0 THEN s
    ELSE IF s[1] \in Whitespace THEN Strip(Tail(s))
    ELSE IF s[Len(s)] \in Whitespace THEN Strip(SubSeq(s, 1, Len(s) - 1))
    ELSE s

\* The name of the week folder, lines 133-135:
\* week_id or WEEK_ID; str(week_id).strip() or "week"; replace("/", "-").
WeekFolderName(week_id) ==
    LET w1 == IF Len(week_id) > 0 THEN week_id ELSE WEEK_ID
        w2 == IF Len(Strip(w1)) > 0 THEN Strip(w1) ELSE <<"w", "e", "e", "k">>
    IN  [i \in 1..Len(w2) |-> IF w2[i] = "/" THEN "-" ELSE w2[i]]

\* A query that names the root as the parent whatever parent_id is.
ListedUnderRoot(folders, parent_id, name) ==
    {i \in 1..Len(folders) :
        folders[i].name = name /\ folders[i].parent = GDRIVE_FOLDER_ID}

\* The folders files().list can answer for q: name, parent, not trashed.
Listed(folders, parent_id, name) ==
    {i \in 1..Len(folders) :
        folders[i].name = name /\ folders[i].parent = parent_id}

\* A resolution that creates without looking first.
AlwaysCreateFolder(folders, parent_id, name) ==
    {[ok |-> FALSE, id |-> 0, folders |-> folders, created |-> FALSE,
      lookups |-> 0],
     [ok |-> TRUE, id |-> Len(folders) + 1,
      folders |-> Append(folders, [name |-> name, parent |-> parent_id]),
      created |-> TRUE, lookups |-> 0]}

\* _ensure_child_folder, lines 101-118: the outcomes of one resolution.  The
\* list call raises, or answers (pageSize=1: one of the matching folders);
\* with no match the create call raises or adds the folder.
\* created tells that the resolution issued a create call that succeeded,
\* lookups counts the list calls it issued: the function keeps nothing from
\* one call to the next and starts with the list call every time.
EnsureChildFolder(folders, parent_id, name) ==
    {[ok |-> FALSE, id |-> 0, folders |-> folders, created |-> FALSE,
      lookups |-> 1]}
    \cup
    (IF Listed(folders, parent_id, name) # {}
     THEN {[ok |-> TRUE, id |-> i, folders |-> folders, created |-> FALSE,
            lookups |-> 1] :
              i \in Listed(folders, parent_id, name)}
     ELSE {[ok |-> TRUE, id |-> Len(folders) + 1,
            folders |-> Append(folders, [name |-> name, parent |-> parent_id]),
            created |-> TRUE, lookups |-> 1]})

\* One completed resolution, as recorded in the history resolved.
Resolution(parent_id, name, o) ==
    [key |-> <<parent_id, name>>, id |-> o.id, created |-> o.created,
     lookups |-> o.lookups]

\* An upload_to_drive that raised: what it leaves behind.
Raised(folders, files, built, called, done) ==
    [raised |-> TRUE, link |-> NoLink, folders |-> folders, files |-> files,
     built |-> built, called |-> called, resolutions |-> done]

\* upload_to_drive, lines 120-152: the set of its outcomes in the store
\* (folders, files), with the client handle _drive built or not.
\*   lines 126, 90-99: _drive_client raises when the credentials are empty;
\*   lines 127-128: RuntimeError when GDRIVE_FOLDER_ID is empty;
\*   lines 130-136: the category folder, then the week folder under it;
\*   lines 138-143: the upload, which raises or adds the file;
\*   lines 145-151: the optional public-link grant changes nothing the
\*   program reads: its failure is swallowed and the link is that of the file.
\* called tells that a remote call was issued.
UploadToDrive(cfg, folders, files, built, fname, kind, week_id) ==
    IF ~built /\ ~cfg.creds
    THEN {Raised(folders, files, FALSE, FALSE, <<>>)}
    ELSE IF ~cfg.folder
    THEN {Raised(folders, files, TRUE, FALSE, <<>>)}
    ELSE
    LET sub == IF kind = "audio" THEN AudioDir ELSE LogsDir
        wk  == WeekFolderName(week_id)
    IN  UNION {
          IF ~o1.ok
          THEN {Raised(o1.folders, files, TRUE, TRUE, <<>>)}
          ELSE UNION {
            IF ~o2.ok
            THEN {Raised(o2.folders, files, TRUE, TRUE,
                         <<Resolution(GDRIVE_FOLDER_ID, sub, o1)>>)}
            ELSE LET done == <<Resolution(GDRIVE_FOLDER_ID, sub, o1),
                               Resolution(o1.id, wk, o2)>>
                 IN  {Raised(o2.folders, files, TRUE, TRUE, done),
                      [raised |-> FALSE,
                       link |-> LinkOf(Len(files) + 1),
                       folders |-> o2.folders,
                       files |-> Append(files, [name |-> fname, parent |-> o2.id]),
                       built |-> TRUE, called |-> TRUE,
                       resolutions |-> done]}
            : o2 \in EnsureChildFolder(o1.folders, o1.id, wk)}
          : o1 \in EnsureChildFolder(folders, GDRIVE_FOLDER_ID, sub)}


(***************************************************************************)
(* The service: POST /submit, server.py lines 166-249                      *)
(***************************************************************************)
\* Bounds of the model: submissions received in all, requests in flight at
\* once.
MaxSubmissions == 2
MaxInFlight == 2
\* Remote calls of the archive that raise, in all.
MaxFaults == 1

Requests == 1..MaxInFlight

VARIABLES
    cfg,        \* environment: creds (GDRIVE_CREDENTIALS_JSON usable),
                \*              folder (GDRIVE_FOLDER_ID non-empty)
    req,        \* per request: position in submit, arguments, locals, response
    running,    \* the request whose coroutine the event loop is running
    received,   \* number of submissions received so far
    uploads,    \* the audio files written under uploads/
    ledger,     \* the rows of submissions.csv
    ledgerExists, \* Path("submissions.csv").exists()
    folders,    \* Drive: the folders
    files,      \* Drive: the uploaded files
    built,      \* the global _drive is set
    resolved,   \* history: per (parent, name), the last two completed
                \* resolutions, each [id, created, lookups]
    faults,     \* number of remote calls of the archive that raised
    payload,    \* start-up: the content of verses.json
    catalog,    \* start-up: what the loading of lines 33-38 made of it
    text,       \* a text handed to _normalize
    norm        \* the results of _normalize applied to it once, twice

serviceVars == <<cfg, req, running, received, uploads, ledger, ledgerExists,
                 folders, files, built, resolved, faults>>
startupVars == <<payload, catalog>>
textVars == <<text, norm>>

vars == <<serviceVars, startupVars, textVars>>

NoResponse == [status |-> 0, kind |-> "none", scores |-> <<>>,
               passed |-> FALSE, transcript |-> <<>>, file |-> NoLink]

\* A slot with no request in it.  The last seven fields are bookkeeping of
\* what the request has done so far: before is the ledger when its body
\* started, steps the steps of submit it has run, in order; sttRaised,
\* archiveRaised and mirrorRaised tell that stt, the audio upload and the
\* ledger upload raised, driveCalled that it issued a remote call of the
\* archive, compared counts its _similarity calls.
IdleRequest ==
    [pc |-> "idle", serial |-> 0, lang |-> "", verse_idx |-> NoIdx,
     week_id |-> NoWeek, transcript |-> <<>>, scores |-> <<>>,
     passed |-> FALSE, link |-> NoLink, write_header |-> FALSE,
     resp |-> NoResponse, before |-> <<>>, steps |-> <<>>,
     sttRaised |-> FALSE, archiveRaised |-> FALSE, mirrorRaised |-> FALSE,
     driveCalled |-> FALSE, compared |-> 0]

DigitChars == <<"0", "1", "2", "3", "4", "5", "6", "7", "8", "9">>
Digit(d) == DigitChars[d + 1]

\* f"{score:.2f}": the score written with two decimals.
FormatScoreTwoPlaces(s) ==
    LET h == (s + 5) \div 10
    IN  <<Digit(h \div 100), ".", Digit((h \div 10) % 10), Digit(h % 10)>>

\* str() of the float round(x, 3), as f'{s["score"]}' of line 229 writes
\* it: the shortest decimal that reads back as the float, which has at
\* least one and at most three decimals.  s is in thousandths, 0..1000.
FormatScore(s) ==
    LET f  == s % 1000
        d1 == f \div 100
        d2 == (f \div 10) % 10
        d3 == f % 10
    IN  <<Digit(s \div 1000), ".">>
        \o (IF d3 # 0 THEN <<Digit(d1), Digit(d2), Digit(d3)>>
            ELSE IF d2 # 0 THEN <<Digit(d1), Digit(d2)>>
            ELSE <<Digit(d1)>>)

\* The scores column, line 229: "; ".join of verse:score, as the sequence
\* of the joined items.
ScoresColumn(scores) ==
    [i \in 1..Len(scores) |->
        [verse |-> scores[i].verse, text |-> FormatScore(scores[i].score)]]

\* The header row and a data row of submissions.csv, lines 220-232.  The
\* timestamp and the submitter's name are left out: nothing reads them.
HeaderRow ==
    [kind |-> "header",
     cols |-> <<"timestamp", "week_id", "name", "lang", "verse_idx", "verses",
                "transcript", "scores", "passed", "drive_link">>]

DataRow(r) ==
    [kind |-> "data",
     week_id |-> IF Len(r.week_id) > 0 THEN r.week_id ELSE WEEK_ID,
     lang |-> r.lang,
     verse_idx |-> r.verse_idx,
     verses |-> [i \in 1..Len(VERSES) |-> VERSES[i].verse_id],
     transcript |-> r.transcript,
     scores |-> ScoresColumn(r.scores),
     passed |-> IF r.passed THEN "Y" ELSE "N",
     drive_link |-> r.link]

Init ==
    /\ cfg \in [creds : BOOLEAN, folder : BOOLEAN]
    /\ req = [r \in Requests |-> IdleRequest]
    /\ running = {}
    /\ received = 0
    /\ uploads = {}
    /\ ledger = <<>>
    /\ ledgerExists = FALSE
    /\ folders = <<>>
    /\ files = <<>>
    /\ built = FALSE
    /\ resolved = <<>>
    /\ faults = 0
    /\ payload = Wrapper(VERSES)
    /\ catalog = LoadCatalog(payload)
    /\ text = <<>>
    /\ norm = <<>>

\* The handler is called and suspends in await audio.read() (line 176).
Arrive(r) ==
    /\ UNCHANGED <<startupVars, textVars>>
    /\ req[r].pc = "idle"
    /\ received < MaxSubmissions
    /\ received' = received + 1
    /\ req' = [req EXCEPT ![r] = [IdleRequest EXCEPT !.pc = "reading",
                                                    !.serial = received + 1]]
    /\ UNCHANGED <<cfg, running, uploads, ledger, ledgerExists, folders,
                   files, built, resolved, faults>>

\* "1) save the file", lines 176-185: the coroutine resumes and from here to
\* its return it never awaits, so the loop runs no other request meanwhile.
\* The form fields are drawn here, where the body first can read them.
Persist(r) ==
    /\ UNCHANGED <<startupVars, textVars>>
    /\ req[r].pc = "reading"
    /\ running = {}
    /\ running' = {r}
    /\ \E lang \in Langs, verse_idx \in VerseIdxInputs, week_id \in WeekInputs :
          req' = [req EXCEPT ![r].pc = "stt",
                             ![r].lang = lang,
                             ![r].verse_idx = verse_idx,
                             ![r].week_id = week_id,
                             ![r].before = ledger,
                             ![r].steps = <<"persist">>]
    /\ uploads' = uploads \cup {req[r].serial}
    /\ UNCHANGED <<cfg, received, ledger, ledgerExists, folders, files, built,
                   resolved, faults>>

\* The JSONResponse of line 191.
SttFailed ==
    [NoResponse EXCEPT !.status = 500, !.kind = "stt_failed"]

\* What the framework answers when the handler raises.
ServerError ==
    [NoResponse EXCEPT !.status = 500, !.kind = "server_error"]

\* A handler that goes on with an empty transcript when stt raises.
SttIgnoreFailure(r) ==
    /\ UNCHANGED <<startupVars, textVars>>
    /\ req[r].pc = "stt"
    /\ r \in running
    /\ \/ req' = [req EXCEPT ![r].pc = "score",
                             ![r].steps = Append(@, "stt"),
                             ![r].sttRaised = TRUE]
       \/ \E t \in Transcripts :
             req' = [req EXCEPT ![r].pc = "score",
                                ![r].steps = Append(@, "stt"),
                                ![r].transcript = t]
    /\ UNCHANGED <<cfg, running, received, uploads, ledger, ledgerExists,
                   folders, files, built, resolved, faults>>

\* "2) STT", lines 187-191: stt raises (provider error, timeout, missing
\* credentials) and the handler returns the 500 response, or it returns the
\* transcript.
Stt(r) ==
    /\ UNCHANGED <<startupVars, textVars>>
    /\ req[r].pc = "stt"
    /\ r \in running
    /\ \/ req' = [req EXCEPT ![r].pc = "done",
                             ![r].steps = Append(@, "stt"),
                             ![r].sttRaised = TRUE,
                             ![r].resp = SttFailed]
       \/ \E t \in Transcripts :
             req' = [req EXCEPT ![r].pc = "score",
                                ![r].steps = Append(@, "stt"),
                                ![r].transcript = t]
    /\ UNCHANGED <<cfg, running, received, uploads, ledger, ledgerExists,
                   folders, files, built, resolved, faults>>

\* The scoring followed at once by the ledger block, ahead of the archival.
ScoreThenLog(r) ==
    /\ UNCHANGED <<startupVars, textVars>>
    /\ req[r].pc = "score"
    /\ r \in running
    /\ LET g == Grade(req[r].transcript, req[r].lang, req[r].verse_idx)
       IN  IF g.raised
           THEN req' = [req EXCEPT ![r].pc = "done",
                                   ![r].steps = Append(@, "score"),
                                   ![r].resp = ServerError]
           ELSE req' = [req EXCEPT ![r].pc = "logcheck",
                                   ![r].steps = Append(@, "score"),
                                   ![r].scores = g.scores,
                                   ![r].passed = g.passed,
                                   ![r].compared = g.compared]
    /\ UNCHANGED <<cfg, running, received, uploads, ledger, ledgerExists,
                   folders, files, built, resolved, faults>>

\* "3) scoring", lines 193-205; an IndexError leaves the handler.
Score(r) ==
    /\ UNCHANGED <<startupVars, textVars>>
    /\ req[r].pc = "score"
    /\ r \in running
    /\ LET g == Grade(req[r].transcript, req[r].lang, req[r].verse_idx)
       IN  IF g.raised
           THEN req' = [req EXCEPT ![r].pc = "done",
                                   ![r].steps = Append(@, "score"),
                                   ![r].resp = ServerError]
           ELSE req' = [req EXCEPT ![r].pc = "archive",
                                   ![r].steps = Append(@, "score"),
                                   ![r].scores = g.scores,
                                   ![r].passed = g.passed,
                                   ![r].compared = g.compared]
    /\ UNCHANGED <<cfg, running, received, uploads, ledger, ledgerExists,
                   folders, files, built, resolved, faults>>


\* week = (week_id or WEEK_ID), line 209.
Week(r) == IF Len(r.week_id) > 0 THEN r.week_id ELSE WEEK_ID

\* The local file name: timestamp, name and a random suffix make it unique.
AudioName(r) == <<"audio", r.serial>>
LedgerName == <<"submissions.csv">>

Last2(s) == IF Len(s) > 2 THEN SubSeq(s, Len(s) - 1, Len(s)) ELSE s

RECURSIVE Remember(_, _)
\* The history resolved with the completed resolutions done added.
Remember(h, done) ==
    IF Len(done) = 0 THEN h
    ELSE LET e == Head(done)
             g == [k \in DOMAIN h \cup {e.key} |->
                     LET old == IF k \in DOMAIN h THEN h[k] ELSE <<>>
                     IN  IF k = e.key
                         THEN Last2(Append(old, [id |-> e.id,
                                                 created |-> e.created,
                                                 lookups |-> e.lookups]))
                         ELSE old]
         IN  Remember(g, Tail(done))

\* The outcome o of upload_to_drive is that a remote call raised.
Faulted(o) == o.raised /\ o.called

\* The archival step without its try/except: a failure leaves the handler.
ArchiveUncaught(r) ==
    /\ UNCHANGED <<startupVars, textVars>>
    /\ req[r].pc = "archive"
    /\ r \in running
    /\ \E o \in UploadToDrive(cfg, folders, files, built, AudioName(req[r]),
                              "audio", Week(req[r])) :
          /\ Faulted(o) => faults < MaxFaults
          /\ faults' = IF Faulted(o) THEN faults + 1 ELSE faults
          /\ folders' = o.folders
          /\ files' = o.files
          /\ built' = o.built
          /\ resolved' = Remember(resolved, o.resolutions)
          /\ IF o.raised
             THEN req' = [req EXCEPT ![r].pc = "done",
                                     ![r].steps = Append(@, "archive"),
                                     ![r].archiveRaised = TRUE,
                                     ![r].resp = ServerError,
                                     ![r].driveCalled = o.called]
             ELSE req' = [req EXCEPT ![r].pc = "logcheck",
                                     ![r].steps = Append(@, "archive"),
                                     ![r].link = o.link,
                                     ![r].driveCalled = o.called]
    /\ UNCHANGED <<cfg, running, received, uploads, ledger, ledgerExists>>

\* "4) Drive upload (audio)", lines 208-214: link is the uploaded file's
\* link, or "" when upload_to_drive raised.
Archive(r) ==
    /\ UNCHANGED <<startupVars, textVars>>
    /\ req[r].pc = "archive"
    /\ r \in running
    /\ \E o \in UploadToDrive(cfg, folders, files, built, AudioName(req[r]),
                              "audio", Week(req[r])) :
          /\ Faulted(o) => faults < MaxFaults
          /\ faults' = IF Faulted(o) THEN faults + 1 ELSE faults
          /\ folders' = o.folders
          /\ files' = o.files
          /\ built' = o.built
          /\ resolved' = Remember(resolved, o.resolutions)
          /\ req' = [req EXCEPT ![r].pc = "logcheck",
                                ![r].steps = Append(@, "archive"),
                                ![r].archiveRaised = o.raised,
                                ![r].link = IF o.raised THEN NoLink ELSE o.link,
                                ![r].driveCalled = o.called]
    /\ UNCHANGED <<cfg, running, received, uploads, ledger, ledgerExists>>

\* A header written on every append.
HeaderAlways(exists) == TRUE

\* write_header = not Path("submissions.csv").exists(), line 216.
WriteHeader(exists) == ~exists

\* An existence check followed by an await (the file opened through an
\* asynchronous library): the coroutine gives the event loop away between
\* its check and its write.
LogCheckYielding(r) ==
    /\ UNCHANGED <<startupVars, textVars>>
    /\ req[r].pc = "logcheck"
    /\ r \in running
    /\ running' = running \ {r}
    /\ req' = [req EXCEPT ![r].pc = "logwrite",
                          ![r].steps = Append(@, "logcheck"),
                          ![r].write_header = WriteHeader(ledgerExists)]
    /\ UNCHANGED <<cfg, received, uploads, ledger, ledgerExists,
                   folders, files, built, resolved, faults>>

LogCheck(r) ==
    /\ UNCHANGED <<startupVars, textVars>>
    /\ req[r].pc = "logcheck"
    /\ r \in running
    /\ req' = [req EXCEPT ![r].pc = "logwrite",
                          ![r].steps = Append(@, "logcheck"),
                          ![r].write_header = WriteHeader(ledgerExists)]
    /\ UNCHANGED <<cfg, running, received, uploads, ledger, ledgerExists,
                   folders, files, built, resolved, faults>>

\* The ledger opened with mode "w" instead of "a": the file is truncated.
LogWriteTruncating(r) ==
    /\ UNCHANGED <<startupVars, textVars>>
    /\ req[r].pc = "logwrite"
    /\ r \in running
    /\ ledgerExists' = TRUE
    /\ ledger' = (IF req[r].write_header THEN <<HeaderRow>> ELSE <<>>)
                 \o <<DataRow(req[r])>>
    /\ req' = [req EXCEPT ![r].pc = "mirror",
                          ![r].steps = Append(@, "logwrite")]
    /\ UNCHANGED <<cfg, running, received, uploads, folders, files, built,
                   resolved, faults>>

\* Lines 217-232: open in append mode (which creates the file), the header
\* row if write_header, the data row.
LogWrite(r) ==
    /\ UNCHANGED <<startupVars, textVars>>
    /\ req[r].pc = "logwrite"
    /\ r \in running
    /\ ledgerExists' = TRUE
    /\ ledger' = ledger
                 \o (IF req[r].write_header THEN <<HeaderRow>> ELSE <<>>)
                 \o <<DataRow(req[r])>>
    /\ req' = [req EXCEPT ![r].pc = "mirror",
                          ![r].steps = Append(@, "logwrite")]
    /\ UNCHANGED <<cfg, running, received, uploads, folders, files, built,
                   resolved, faults>>

\* The ledger upload without its try/except: a failure leaves the handler.
MirrorUncaught(r) ==
    /\ UNCHANGED <<startupVars, textVars>>
    /\ req[r].pc = "mirror"
    /\ r \in running
    /\ \E o \in UploadToDrive(cfg, folders, files, built, LedgerName, "log",
                              Week(req[r])) :
          /\ Faulted(o) => faults < MaxFaults
          /\ faults' = IF Faulted(o) THEN faults + 1 ELSE faults
          /\ folders' = o.folders
          /\ files' = o.files
          /\ built' = o.built
          /\ resolved' = Remember(resolved, o.resolutions)
          /\ IF o.raised
             THEN req' = [req EXCEPT ![r].pc = "done",
                                     ![r].steps = Append(@, "mirror"),
                                     ![r].mirrorRaised = TRUE,
                                     ![r].resp = ServerError,
                                     ![r].driveCalled = @ \/ o.called]
             ELSE req' = [req EXCEPT ![r].pc = "return",
                                     ![r].steps = Append(@, "mirror"),
                                     ![r].driveCalled = @ \/ o.called]
    /\ UNCHANGED <<cfg, running, received, uploads, ledger, ledgerExists>>

\* Lines 234-237: the ledger is pushed to the "logs" category; a failure is
\* swallowed.
Mirror(r) ==
    /\ UNCHANGED <<startupVars, textVars>>
    /\ req[r].pc = "mirror"
    /\ r \in running
    /\ \E o \in UploadToDrive(cfg, folders, files, built, LedgerName, "log",
                              Week(req[r])) :
          /\ Faulted(o) => faults < MaxFaults
          /\ faults' = IF Faulted(o) THEN faults + 1 ELSE faults
          /\ folders' = o.folders
          /\ files' = o.files
          /\ built' = o.built
          /\ resolved' = Remember(resolved, o.resolutions)
          /\ req' = [req EXCEPT ![r].pc = "return",
                                ![r].steps = Append(@, "mirror"),
                                ![r].mirrorRaised = o.raised,
                                ![r].driveCalled = @ \/ o.called]
    /\ UNCHANGED <<cfg, running, received, uploads, ledger, ledgerExists>>

\* The verdict returned by lines 239-249.
Verdict(r) ==
    [status |-> 200, kind |-> "verdict", scores |-> r.scores,
     passed |-> r.passed, transcript |-> r.transcript, file |-> r.link]

Return(r) ==
    /\ UNCHANGED <<startupVars, textVars>>
    /\ req[r].pc = "return"
    /\ r \in running
    /\ req' = [req EXCEPT ![r].pc = "done", ![r].resp = Verdict(req[r])]
    /\ UNCHANGED <<cfg, running, received, uploads, ledger, ledgerExists,
                   folders, files, built, resolved, faults>>

\* The response is sent, the coroutine is over and the loop is free.
Finish(r) ==
    /\ UNCHANGED <<startupVars, textVars>>
    /\ req[r].pc = "done"
    /\ r \in running
    /\ running' = running \ {r}
    /\ req' = [req EXCEPT ![r] = IdleRequest]
    /\ UNCHANGED <<cfg, received, uploads, ledger, ledgerExists, folders,
                   files, built, resolved, faults>>

Next ==
    \E r \in Requests :
        \/ Arrive(r)
        \/ Persist(r)
        \/ Stt(r)
        \/ Score(r)
        \/ Archive(r)
        \/ LogCheck(r)
        \/ LogWrite(r)
        \/ Mirror(r)
        \/ Return(r)
        \/ Finish(r)

Spec == Init /\ [][Next]_vars


(***************************************************************************)
(* Start-up: the module is imported and lines 32-38 load the catalog, on   *)
(* any of the files of Payloads.                                           *)
(***************************************************************************)
\* The service as it stands while the module is being imported: no request
\* has been received yet.
Idle ==
    /\ cfg = [creds |-> TRUE, folder |-> TRUE]
    /\ req = [r \in Requests |-> IdleRequest]
    /\ running = {}
    /\ received = 0
    /\ uploads = {}
    /\ ledger = <<>>
    /\ ledgerExists = FALSE
    /\ folders = <<>>
    /\ files = <<>>
    /\ built = FALSE
    /\ resolved = <<>>
    /\ faults = 0

StartupInit ==
    /\ Idle
    /\ payload \in Payloads
    /\ catalog = NotLoaded
    /\ text = <<>>
    /\ norm = <<>>

Load ==
    /\ catalog = NotLoaded
    /\ catalog' = LoadCatalog(payload)
    /\ UNCHANGED <<serviceVars, payload, textVars>>

StartupNext == Load

StartupSpec == StartupInit /\ [][StartupNext]_vars


(***************************************************************************)
(* _normalize applied to a text, and again to its result.                  *)
(***************************************************************************)
TextInit ==
    /\ Idle
    /\ payload = Wrapper(VERSES)
    /\ catalog = LoadCatalog(payload)
    /\ text \in Texts
    /\ norm = <<>>

Normalize ==
    /\ Len(norm) < 2
    /\ norm' = Append(norm, _normalize(IF norm = <<>> THEN text
                                       ELSE norm[Len(norm)]))
    /\ UNCHANGED <<serviceVars, startupVars, text>>

TextNext == Normalize

TextSpec == TextInit /\ [][TextNext]_vars


(***************************************************************************)
(* Properties                                                              *)
(***************************************************************************)
\* The request in slot r has returned a verdict.
HasVerdict(r) == req[r].pc = "done" /\ req[r].resp.kind = "verdict"

\* verse_idx is given and is no index of the catalog.
OutOfRange(verse_idx) ==
    verse_idx # NoIdx /\ ~(0 <= verse_idx[1] /\ verse_idx[1] < Len(VERSES))

\* A response of the client-error class.
IsInvalidInputError(resp) == 400 <= resp.status /\ resp.status <= 499

\* The full-precision similarity x is at least THRESHOLD.
ExactMeetsThreshold(x) == x.num * 1000 >= THRESHOLD * x.den

\* C1: in every verdict returned, single-verse or multi-verse, passed is
\* true exactly when every score of the verdict's scores is >= THRESHOLD.
C1_PassedIffAllScoresMeet ==
    \A r \in Requests :
        HasVerdict(r) =>
            (req[r].resp.passed <=>
                \A i \in 1..Len(req[r].resp.scores) :
                    req[r].resp.scores[i].score >= THRESHOLD)

\* C1 witness: a multi-verse verdict with one score exactly THRESHOLD and
\* another below it, and passed false.
C1_Witness ==
    \E r \in Requests :
        /\ HasVerdict(r)
        /\ req[r].verse_idx = NoIdx
        /\ \E i \in 1..Len(req[r].resp.scores) :
              req[r].resp.scores[i].score = THRESHOLD
        /\ \E i \in 1..Len(req[r].resp.scores) :
              req[r].resp.scores[i].score < THRESHOLD
        /\ ~req[r].resp.passed

\* C2: a submission (verse_idx absent or valid) whose unrounded similarity
\* with a verse in scope is strictly below THRESHOLD is never reported as
\* passed.
C2_DecisionOnFullPrecision ==
    \A r \in Requests :
        (HasVerdict(r) /\ ~OutOfRange(req[r].verse_idx) /\ req[r].resp.passed) =>
            \A i \in 1..Len(VERSES) :
                (req[r].verse_idx = NoIdx \/ req[r].verse_idx = <<i - 1>>) =>
                    ExactMeetsThreshold(
                        _similarity(req[r].transcript,
                                    Target(VERSES[i], req[r].lang)))

\* C3: when the audio archival raised, the submission ends with the
\* verdict response (never an error), its link is empty, its scores and
\* passed are those of the grading, and the ledger has gained the
\* submission's row, with an empty link.
C3_ArchivalFailureIsSoft ==
    \A r \in Requests :
        req[r].archiveRaised =>
            /\ req[r].pc \in {"logcheck", "logwrite", "mirror", "return", "done"}
            /\ req[r].pc = "done" =>
                  LET g == Grade(req[r].transcript, req[r].lang, req[r].verse_idx)
                  IN  /\ req[r].resp.kind = "verdict"
                      /\ req[r].resp.status = 200
                      /\ req[r].resp.file = NoLink
                      /\ req[r].resp.scores = g.scores
                      /\ req[r].resp.passed = g.passed
                      /\ Len(ledger) > Len(req[r].before)
                      /\ ledger[Len(ledger)].kind = "data"
                      /\ ledger[Len(ledger)].drive_link = NoLink
                      /\ ledger[Len(ledger)].transcript = req[r].transcript

\* C3 witness: a verdict returned after a remote call of the audio upload
\* raised.
C3_Witness ==
    \E r \in Requests :
        /\ HasVerdict(r)
        /\ req[r].archiveRaised
        /\ req[r].driveCalled
        /\ req[r].resp.passed

\* C4: when stt raised, the request is over with the status-500 "STT
\* failed" response, the ledger is as it was, and no archival or mirror
\* step has run.
C4_SttFailureAborts ==
    \A r \in Requests :
        req[r].sttRaised =>
            /\ req[r].pc = "done"
            /\ req[r].resp.status = 500
            /\ req[r].resp.kind = "stt_failed"
            /\ ledger = req[r].before
            /\ req[r].steps = <<"persist", "stt">>
            /\ ~req[r].driveCalled

\* C4 witness: stt raised for a submission that found a ledger with rows.
C4_Witness ==
    \E r \in Requests :
        /\ req[r].sttRaised
        /\ req[r].pc = "done"
        /\ Len(req[r].before) > 0

\* C5: a submission whose verse_idx is out of range is never graded, and
\* once its transcript is there it ends with an invalid-input error.
C5_OutOfRangeIsRejected ==
    \A r \in Requests :
        (OutOfRange(req[r].verse_idx) /\ ~req[r].sttRaised) =>
            /\ req[r].scores = <<>>
            /\ req[r].pc = "done" => IsInvalidInputError(req[r].resp)

\* C6: a submission whose language code is not supported never reaches a
\* similarity comparison, and once its transcript is there it ends with an
\* invalid-input error.
C6_UnsupportedLanguageIsRejected ==
    \A r \in Requests :
        (req[r].pc \notin {"idle", "reading"}
            /\ req[r].lang \notin SupportedLangs /\ ~req[r].sttRaised) =>
            /\ req[r].compared = 0
            /\ req[r].pc = "done" => IsInvalidInputError(req[r].resp)

\* C7: while and after a submission with an out-of-range verse_idx is
\* handled, the ledger is the ledger it found.
C7_OutOfRangeLeavesLedger ==
    \A r \in Requests :
        OutOfRange(req[r].verse_idx) => ledger = req[r].before

\* C8: a submission with an unsupported language code or an out-of-range
\* verse_idx has no side effect: no audio file written, no transcription
\* call, no remote call, the ledger unchanged.
C8_InvalidInputHasNoSideEffect ==
    \A r \in Requests :
        (req[r].pc \notin {"idle", "reading"}
            /\ (req[r].lang \notin SupportedLangs \/ OutOfRange(req[r].verse_idx))) =>
            /\ req[r].steps = <<>>
            /\ req[r].serial \notin uploads
            /\ ~req[r].driveCalled
            /\ ledger = req[r].before

\* C9: of two successive completed resolutions of the same (parent, name),
\* both return the same folder id and at most one of them created a folder.
C9_ResolutionIdempotent ==
    \A k \in DOMAIN resolved :
        Len(resolved[k]) = 2 =>
            /\ resolved[k][1].id = resolved[k][2].id
            /\ ~(resolved[k][1].created /\ resolved[k][2].created)

\* C9 witness: a week folder (a key under a category folder) created by one
\* resolution and found by the next.
C9_Witness ==
    \E k \in DOMAIN resolved :
        /\ k[1] # GDRIVE_FOLDER_ID
        /\ Len(resolved[k]) = 2
        /\ resolved[k][1].created
        /\ ~resolved[k][2].created

\* C10: a ledger with rows has the header as its first row and nowhere
\* else.
C10_OneHeaderFirst ==
    /\ ledgerExists <=> Len(ledger) > 0
    /\ Len(ledger) > 0 =>
          /\ ledger[1] = HeaderRow
          /\ \A i \in 2..Len(ledger) : ledger[i].kind = "data"
          /\ Len(ledger) >= 2

\* C10 witness: two submissions have appended their rows.
C10_Witness ==
    /\ Len(ledger) = 3
    /\ ledger[2].kind = "data"
    /\ ledger[3].kind = "data"
    /\ \A r \in Requests : req[r].pc = "idle"


\* The step named has been run by the request in slot r.
Ran(r, step) == \E i \in 1..Len(req[r].steps) : req[r].steps[i] = step

\* The rows the request in slot r has appended to the ledger.
Appended(r) == SubSeq(ledger, Len(req[r].before) + 1, Len(ledger))

\* The file f of the store lies in a week folder of the category sub.
FiledUnder(f, sub) ==
    LET week == folders[f.parent]
    IN  /\ week.parent \in 1..Len(folders)
        /\ folders[week.parent].name = sub
        /\ folders[week.parent].parent = GDRIVE_FOLDER_ID

\* C11: every ledger append is followed by an attempt to push the ledger
\* to the archive under "logs" (a request that has written its row has run
\* the mirror step by the time it returns, and a ledger file in the store
\* lies under "logs"); when that attempt raised, the request still ends
\* with the 200 verdict and its data row is still the last row of the
\* ledger.
C11_MirrorFailureIsSwallowed ==
    /\ \A r \in Requests :
          /\ (Ran(r, "logwrite") /\ req[r].pc \in {"return", "done"})
                => Ran(r, "mirror")
          /\ (Ran(r, "mirror") /\ ~req[r].mirrorRaised)
                => \E i \in 1..Len(files) : files[i].name = LedgerName
          /\ (req[r].pc = "done" /\ req[r].mirrorRaised)
                => /\ HasVerdict(r)
                   /\ req[r].resp.status = 200
                   /\ Len(Appended(r)) >= 1
                   /\ ledger[Len(ledger)] = DataRow(req[r])
                   /\ SubSeq(ledger, 1, Len(req[r].before)) = req[r].before
    /\ \A i \in 1..Len(files) :
          files[i].name = LedgerName => FiledUnder(files[i], LogsDir)

\* A request whose ledger upload raised has returned.
C11_Witness ==
    \E r \in Requests :
        /\ req[r].pc = "done"
        /\ req[r].mirrorRaised
        /\ Ran(r, "logwrite")

IsPrefix(s, t) == Len(s) <= Len(t) /\ SubSeq(t, 1, Len(s)) = s

IsDataRow(row) == row.kind = "data"

\* C12: the ledger is append-only with one record per submission: in every
\* step the rows of the ledger before it are a prefix of the rows after it,
\* and a request that has returned a verdict has appended exactly one data
\* row.
C12_AppendOnly ==
    [][/\ IsPrefix(ledger, ledger')
       /\ \A r \in Requests :
             HasVerdict(r)' => Len(SelectSeq(Appended(r), IsDataRow))' = 1]_vars

\* A verdict has been returned for a row appended to a ledger that already
\* held rows.
C12_Witness ==
    \E r \in Requests :
        /\ HasVerdict(r)
        /\ Len(req[r].before) > 0
        /\ Len(ledger) > Len(req[r].before)

\* The payload is one of the three shapes of the catalog file.
IsCatalogShape(raw) == raw.shape \in {"verse", "list", "wrapper"}

\* C13: once lines 33-38 have run, a payload of one of the three shapes
\* (single verse object, flat list, wrapper with "verses") has been turned
\* into the ordered sequence of its verse objects, and a payload of no such
\* shape has made the start-up fail.
C13_LoaderNormalizesThreeShapes ==
    catalog # NotLoaded =>
        IF IsCatalogShape(payload)
        THEN /\ catalog.state = "loaded"
             /\ catalog.isList
             /\ catalog.items = payload.items
        ELSE catalog.state = "failed"

\* C14: a verdict for a verse_idx that is an index of the catalog has exactly
\* one score, that of the verse at that index (its verse_id, and for a
\* supported lang the rounded similarity with that verse's text); a verdict
\* for an absent verse_idx has one score per catalog verse, in catalog order.
C14_ScopeSelection ==
    \A r \in Requests :
        HasVerdict(r) =>
            LET idx == req[r].verse_idx
                sc  == req[r].resp.scores
                Expected(v) ==
                    Round3(Similarity(req[r].transcript,
                                      IF req[r].lang = "kr" THEN v.kr ELSE v.en))
            IN  /\ (idx # NoIdx /\ ~OutOfRange(idx)) =>
                      /\ Len(sc) = 1
                      /\ sc[1].verse = VERSES[idx[1] + 1].verse_id
                      /\ req[r].lang \in SupportedLangs =>
                            sc[1].score = Expected(VERSES[idx[1] + 1])
                /\ idx = NoIdx =>
                      /\ Len(sc) = Len(VERSES)
                      /\ \A k \in 1..Len(VERSES) :
                            /\ sc[k].verse = VERSES[k].verse_id
                            /\ req[r].lang \in SupportedLangs =>
                                  sc[k].score = Expected(VERSES[k])

\* A verdict for verse_idx 0, after a submission without verse_idx was
\* graded and logged.
C14_Witness ==
    \E r \in Requests :
        /\ HasVerdict(r)
        /\ req[r].verse_idx = <<0>>
        /\ Len(req[r].resp.scores) = 1
        /\ \E k \in 1..Len(req[r].before) :
              /\ req[r].before[k].kind = "data"
              /\ req[r].before[k].verse_idx = NoIdx

C16_NormalizeIdempotent ==
    Len(norm) = 2 => norm[2] = norm[1]

\* _normalize has been applied twice to a text with a capital letter and
\* with stripped characters, which the first application changed.
C16_Witness ==
    /\ Len(norm) = 2
    /\ \E i \in 1..Len(text) : text[i] \in {"B", "Z"}
    /\ \E i \in 1..Len(text) : text[i] \in StrippedChars
    /\ Len(norm[1]) = 2
    /\ norm[1] # text

\* The request in slot r has checked that the ledger exists and has not
\* written its rows yet.
InAppend(r) == req[r].pc = "logwrite"

\* C17: each ledger append is atomic.  While a request is between its
\* existence check and the end of its write, no other request is, no other
\* request takes its check or its write, and the only change of the ledger
\* is the write of that request's own rows in one piece; so the ledger
\* never holds two header rows.
C17_AppendIsAtomic ==
    [][/\ \A r \in Requests :
             InAppend(r) =>
                 /\ \A q \in Requests \ {r} :
                       /\ ~InAppend(q)
                       /\ ~InAppend(q)'
                       /\ req[q].pc = "logcheck" => req'[q].pc = "logcheck"
                 /\ ledger' # ledger =>
                       /\ req'[r].pc = "mirror"
                       /\ ledger' = ledger
                                    \o (IF req[r].write_header
                                        THEN <<HeaderRow>> ELSE <<>>)
                                    \o <<DataRow(req[r])>>
       /\ \A i, j \in 1..Len(ledger') :
             (ledger'[i].kind = "header" /\ ledger'[j].kind = "header")
                 => i = j]_vars

\* A request is between its check and its write while another submission
\* has been received and waits for the event loop.
C17_Witness ==
    \E r, q \in Requests :
        /\ InAppend(r)
        /\ req[r].write_header
        /\ req[q].pc = "reading"

\* C18: in every reachable state the store holds at most one folder per
\* key: no two folders have the same name under the same parent.
C18_OneFolderPerKey ==
    \A i, j \in 1..Len(folders) :
        (folders[i].name = folders[j].name
            /\ folders[i].parent = folders[j].parent) => i = j

\* A second submission has just resolved, for its audio upload, a week
\* folder that an earlier submission created, while the store holds the
\* two category folders and week folders under each.
C18_Witness ==
    /\ \E k \in DOMAIN resolved :
          /\ k[1] # GDRIVE_FOLDER_ID
          /\ Len(resolved[k]) = 2
          /\ resolved[k][1].created
    /\ \E r \in Requests : req[r].pc = "logcheck" /\ ~req[r].archiveRaised
    /\ Len(folders) >= 4

\* The steps of submit in the order of the source.
StepOrder ==
    <<"persist", "stt", "score", "archive", "logcheck", "logwrite", "mirror">>

\* C19: within one submission the steps run in the order persist,
\* transcribe, score, archive, log: the steps a request has run are an
\* initial part of StepOrder; its audio file is on disk once it has called
\* the recogniser; it has scores only after the recogniser returned a
\* transcript; its audio is in the store only after scoring; and it has
\* added rows to the ledger only after its archival attempt ended.
C19_StepsInOrder ==
    \A r \in Requests :
        /\ IsPrefix(req[r].steps, StepOrder)
        /\ Ran(r, "stt") => req[r].serial \in uploads
        /\ Len(req[r].scores) > 0 =>
              /\ Ran(r, "stt")
              /\ ~req[r].sttRaised
              /\ req[r].transcript \in Transcripts
        /\ r \in running =>
              /\ (\E i \in 1..Len(files) : files[i].name = AudioName(req[r]))
                    => (Ran(r, "score") /\ Len(req[r].scores) > 0)
              /\ Len(Appended(r)) > 0 => Ran(r, "archive")

\* A request whose archival attempt raised has run every step and written
\* its row.
C19_Witness ==
    \E r \in Requests :
        /\ req[r].steps = StepOrder
        /\ req[r].archiveRaised
        /\ Len(Appended(r)) > 0
        /\ r \in running

DigitValue(c) == CHOOSE d \in 0..9 : DigitChars[d + 1] = c

RECURSIVE Pow10(_)
Pow10(n) == IF n = 0 THEN 1 ELSE 10 * Pow10(n - 1)

RECURSIVE DigitsValue(_)
DigitsValue(t) ==
    IF Len(t) = 0 THEN 0
    ELSE 10 * DigitsValue(SubSeq(t, 1, Len(t) - 1)) + DigitValue(t[Len(t)])

\* The number a decimal text of at most three decimals denotes, in
\* thousandths.
DecimalValue(t) ==
    LET dot  == CHOOSE i \in 1..Len(t) : t[i] = "."
        frac == SubSeq(t, dot + 1, Len(t))
    IN  1000 * DigitsValue(SubSeq(t, 1, dot - 1))
        + DigitsValue(frac) * Pow10(3 - Len(frac))

\* C20: when a request has returned a verdict, the data row it appended
\* (the last row of the ledger) agrees with the response: passed is "Y"
\* exactly when the response's passed is true; the scores column lists the
\* response's scores, verse by verse, each text denoting the response's
\* score; drive_link is the response's file, and both are empty when the
\* archival raised.
C20_RowAgreesWithResponse ==
    \A r \in Requests :
        HasVerdict(r) =>
            /\ Len(Appended(r)) >= 1
            /\ LET row  == ledger[Len(ledger)]
                   resp == req[r].resp
               IN  /\ row.kind = "data"
                   /\ (row.passed = "Y") <=> resp.passed
                   /\ row.passed \in {"Y", "N"}
                   /\ Len(row.scores) = Len(resp.scores)
                   /\ \A k \in 1..Len(resp.scores) :
                         /\ row.scores[k].verse = resp.scores[k].verse
                         /\ DecimalValue(row.scores[k].text)
                               = resp.scores[k].score
                   /\ row.drive_link = resp.file
                   /\ req[r].archiveRaised =>
                         (row.drive_link = NoLink /\ resp.file = NoLink)

\* A verdict with passed true and an archive link, whose row holds the
\* score THRESHOLD written "0.85".
C20_Witness ==
    \E r \in Requests :
        /\ HasVerdict(r)
        /\ req[r].resp.passed
        /\ req[r].resp.file # NoLink
        /\ ledger[Len(ledger)].passed = "Y"
        /\ \E k \in 1..Len(req[r].resp.scores) :
              ledger[Len(ledger)].scores[k].text = <<"0", ".", "8", "5">>
====
